---- MODULE Spec2Model ----
(***************************************************************************)
(* Model of the section generation state machine of the BookDistiller      *)
(* React component (src/src/lib/pages/book-distiller/index.tsx).           *)
(*                                                                         *)
(* The component keeps its state in useState cells.  Every function of the *)
(* component body (generateNext, accept, the timer callbacks they create)  *)
(* is a closure over the values of the render in which it was created: a   *)
(* handler invoked by the user sees the state of the latest render, while  *)
(* code that runs after an await or inside a setTimeout callback keeps     *)
(* seeing the values of the render that started it.  The model therefore   *)
(* carries, with every in-flight request and every pending timer, the      *)
(* snapshot ("closure") of the state cells its code reads.  State setters  *)
(* (setIsBusy, setSections, ...) always act on the current state.          *)
(*                                                                         *)
(* Text is a sequence of one-character strings, so that trim(), includes() *)
(* and join() are computed and not assumed.                                *)
(***************************************************************************)
EXTENDS Integers, Sequences, FiniteSets, TLC

\* ---------------------------------------------------------------- bounds
\* Requests dispatched to the completion oracle in one behaviour.
MaxRequests == 3
\* Documents uploaded in one behaviour.
MaxBooks == 2
\* Store edits by the human (edit, discard, undoLast, clearRun) in one behaviour.
MaxEdits == 1
\* Changes of the maximum-sections input in one behaviour.
MaxConfigs == 1
\* Sections of the list the section operations are applied to on their own.
MaxStored == 3
\* Sections present when an auto-advance run is left to itself.
MaxRunLen == 2

\* ------------------------------------------------------ program constants
\* useState(12) for maxSections.
DEFAULT_MAX_SECTIONS == 12
\* The settling delays of the two continuation timers, in milliseconds.
GEN_DELAY == 500
ACCEPT_DELAY == 200

\* DEFAULT_STOP_TOKEN, abbreviated to one character.
DEFAULT_STOP_TOKEN == <<"E">>
\* The separator of the accepted-section history and of the stitched text.
SEP == <<"\n", "\n">>

\* bookId of useState(''): no document selected.
NoBook == 0

\* Raw completions the oracle may return (before trim()).
Texts == { <<"a">>, <<"E", " ">> }
\* Contents the human may type into a section's text area.
EditTexts == { <<"a">>, <<"E">> }
\* Values the human may type into the maximum-sections input.
MaxChoices == {1, 2}

VARIABLES
    bookId,          \* useState: identifier of the selected document
    currentApiKey,   \* apiKeys[provider] is non-empty
    autoAdvance,     \* useState: auto-advance mode
    maxSections,     \* useState: maximum accepted-section count
    stopToken,       \* useState: stop token
    isBusy,          \* useState: busy flag
    shouldStop,      \* useState: cancellation-requested flag
    sections,        \* useState: in-memory section list (append order)
    dbSections,      \* db.sections: the persistent section table (set of records)
    inflight,        \* completion requests dispatched and not yet returned
    timers,          \* pending setTimeout callbacks, in scheduling order
    nextBook,        \* source of fresh document identifiers (crypto.randomUUID)
    nextId,          \* source of fresh section identifiers (crypto.randomUUID)
    dispatched,      \* number of requests dispatched so far
    edits,           \* number of store edits by the human so far
    configs,         \* number of changes of maxSections so far
    everGenerated,   \* documents for which a section has ever been appended
    stopPending,     \* Stop Process was clicked while a request was in flight and
                     \* neither Start/Next nor Auto advance has been clicked since
    undoneOrdinals   \* the <<document, ordinal>> pairs of the sections undoLast removed

vars == << bookId, currentApiKey, autoAdvance, maxSections, stopToken, isBusy,
           shouldStop, sections, dbSections, inflight, timers, nextBook, nextId,
           dispatched, edits, configs, everGenerated, stopPending,
           undoneOrdinals >>

\* ------------------------------------------------------------ text helpers
RECURSIVE TrimStart(_)
TrimStart(t) ==
    IF t # <<>> /\ Head(t) = " " THEN TrimStart(Tail(t)) ELSE t

RECURSIVE TrimEnd(_)
TrimEnd(t) ==
    IF t # <<>> /\ t[Len(t)] = " " THEN TrimEnd(SubSeq(t, 1, Len(t) - 1)) ELSE t

\* String.prototype.trim
Trim(t) == TrimEnd(TrimStart(t))

\* String.prototype.includes: tok occurs in t as a contiguous substring.
Includes(t, tok) ==
    \E i \in 1..(Len(t) - Len(tok) + 1) : SubSeq(t, i, i + Len(tok) - 1) = tok

\* Array.prototype.join over a sequence of texts.
RECURSIVE JoinTexts(_, _)
JoinTexts(ts, sep) ==
    IF ts = <<>> THEN <<>>
    ELSE IF Len(ts) = 1 THEN ts[1]
    ELSE ts[1] \o sep \o JoinTexts(Tail(ts), sep)

\* ------------------------------------------------------- section helpers
\* Array.prototype.filter(s => s.status === 'accepted')
RECURSIVE FilterAccepted(_)
FilterAccepted(ss) ==
    IF ss = <<>> THEN <<>>
    ELSE IF Head(ss).status = "accepted"
         THEN <<Head(ss)>> \o FilterAccepted(Tail(ss))
         ELSE FilterAccepted(Tail(ss))

\* Insert x into the order-sorted sequence ss after every element whose order
\* is not greater (Array.prototype.sort is stable).
RECURSIVE InsertByOrder(_, _)
InsertByOrder(x, ss) ==
    IF ss = <<>> THEN <<x>>
    ELSE IF Head(ss).order <= x.order
         THEN <<Head(ss)>> \o InsertByOrder(x, Tail(ss))
         ELSE <<x>> \o ss

\* Array.prototype.sort((a, b) => a.order - b.order)
RECURSIVE SortByOrder(_)
SortByOrder(ss) ==
    IF ss = <<>> THEN <<>>
    ELSE InsertByOrder(ss[Len(ss)], SortByOrder(SubSeq(ss, 1, Len(ss) - 1)))

\* The `accepted` memo of a render.
Accepted(ss) == SortByOrder(FilterAccepted(ss))

\* accepted.map(s => s.content)
Contents(ss) == [i \in 1..Len(ss) |-> ss[i].content]

\* The `stitched` memo of a render, and the history of a request.
Stitched(acc) == JoinTexts(Contents(acc), SEP)

\* db.sections.where({ bookId }).sortBy('order'): the records of the document
\* ordered by ordinal.  Records with equal ordinals come in primary-key (UUID)
\* order, which is unrelated to creation order: any order among them.
DbOf(b) == { s \in dbSections : s.bookId = b }

DbSorted(b) ==
    LET S == DbOf(b)
        n == Cardinality(S)
    IN { f \in [1..n -> S] :
           /\ \A i, j \in 1..n : i # j => f[i] # f[j]
           /\ \A i, j \in 1..n : i < j => f[i].order <= f[j].order }

\* ------------------------------------------------------------- closures
\* The values of the current render that generateNext and the timer callbacks
\* read: bookId, currentApiKey, shouldStop, autoAdvance, maxSections,
\* stopToken, sections.length and the contents of the `accepted` memo.
Snapshot ==
    [ bookId        |-> bookId,
      currentApiKey |-> currentApiKey,
      autoAdvance   |-> autoAdvance,
      maxSections   |-> maxSections,
      stopToken     |-> stopToken,
      shouldStop    |-> shouldStop,
      nSections     |-> Len(sections),
      accepted      |-> Contents(Accepted(sections)) ]

Init ==
    /\ bookId = NoBook
    /\ currentApiKey = FALSE
    /\ autoAdvance = FALSE
    /\ maxSections = DEFAULT_MAX_SECTIONS
    /\ stopToken = DEFAULT_STOP_TOKEN
    /\ isBusy = FALSE
    /\ shouldStop = FALSE
    /\ sections = <<>>
    /\ dbSections = {}
    /\ inflight = {}
    /\ timers = <<>>
    /\ nextBook = 1
    /\ nextId = 1
    /\ dispatched = 0
    /\ edits = 0
    /\ configs = 0
    /\ everGenerated = {}
    /\ stopPending = FALSE
    /\ undoneOrdinals = {}


\* ------------------------------------------------------- generateNext
\* generateNext with setIsBusy(true) moved in front of the early returns, which
\* stay outside the try/finally that clears the flag.
GenerateNext_BusyBeforeChecks(s, useOverride, acceptedOverride, caller) ==
    IF s.bookId = NoBook \/ ~s.currentApiKey
    THEN /\ isBusy' = TRUE
         /\ UNCHANGED << shouldStop, inflight, dispatched >>
    ELSE IF s.shouldStop
    THEN /\ isBusy' = TRUE
         /\ shouldStop' = FALSE
         /\ UNCHANGED << inflight, dispatched >>
    ELSE /\ dispatched < MaxRequests
         /\ isBusy' = TRUE
         /\ inflight' = inflight \cup
              { [ rid     |-> dispatched + 1,
                  caller  |-> caller,
                  snap    |-> s,
                  history |-> JoinTexts(IF useOverride
                                        THEN Contents(acceptedOverride)
                                        ELSE s.accepted, SEP) ] }
         /\ dispatched' = dispatched + 1
         /\ UNCHANGED shouldStop

\* generateNext up to its first suspension point (the oracle call), run in the
\* closure s.  useOverride/acceptedOverride is the optional argument.  The
\* early returns leave every state cell alone; the pre-flight cancellation
\* check clears the flag; otherwise the busy flag is set and the request,
\* carrying the closure its continuation will run in, is dispatched.  The
\* request records who called generateNext (read by no operation).
GenerateNext(s, useOverride, acceptedOverride, caller) ==
    IF s.bookId = NoBook \/ ~s.currentApiKey
    THEN UNCHANGED << isBusy, shouldStop, inflight, dispatched >>
    ELSE IF s.shouldStop
    THEN /\ shouldStop' = FALSE
         /\ UNCHANGED << isBusy, inflight, dispatched >>
    ELSE /\ dispatched < MaxRequests
         /\ isBusy' = TRUE
         /\ inflight' = inflight \cup
              { [ rid     |-> dispatched + 1,
                  caller  |-> caller,
                  snap    |-> s,
                  history |-> JoinTexts(IF useOverride
                                        THEN Contents(acceptedOverride)
                                        ELSE s.accepted, SEP) ] }
         /\ dispatched' = dispatched + 1
         /\ UNCHANGED shouldStop

\* onClick of the Start/Next button: setAutoAdvance(false); generateNext().
StartOrNextHandler ==
    /\ stopPending' = FALSE
    /\ autoAdvance' = FALSE
    /\ GenerateNext(Snapshot, FALSE, <<>>, "startOrNext")
    /\ UNCHANGED << bookId, currentApiKey, maxSections, stopToken, sections,
                    dbSections, timers, nextBook, nextId, edits, configs,
                    everGenerated, undoneOrdinals >>

\* onClick of the Auto advance button: setAutoAdvance(true); generateNext().
AutoAdvanceHandler ==
    /\ stopPending' = FALSE
    /\ autoAdvance' = TRUE
    /\ GenerateNext(Snapshot, FALSE, <<>>, "autoAdvance")
    /\ UNCHANGED << bookId, currentApiKey, maxSections, stopToken, sections,
                    dbSections, timers, nextBook, nextId, edits, configs,
                    everGenerated, undoneOrdinals >>

\* The Start/Next button with its disabled={isBusy} attribute left out.
StartOrNext_NotDisabled ==
    StartOrNextHandler

\* The Start/Next button: a click reaches the handler unless disabled={isBusy}.
StartOrNext ==
    /\ ~isBusy
    /\ StartOrNextHandler

\* The Auto advance button: a click reaches the handler unless disabled={isBusy}.
AutoAdvanceClick ==
    /\ ~isBusy
    /\ AutoAdvanceHandler

\* The Stop Process button, rendered only while isBusy || autoAdvance.
StopProcess ==
    /\ isBusy \/ autoAdvance
    /\ shouldStop' = TRUE
    /\ autoAdvance' = FALSE
    /\ stopPending' = (stopPending \/ inflight # {})
    /\ UNCHANGED << bookId, currentApiKey, maxSections, stopToken, isBusy,
                    sections, dbSections, inflight, timers, nextBook, nextId,
                    dispatched, edits, configs, everGenerated, undoneOrdinals >>

\* generateNext scheduling its continuation after the first section too (the
\* !isFirstSection test of the continuation left out).
OracleReturns_NoGate(r, text) ==
    LET s              == r.snap
        order          == s.nSections + 1
        isFirstSection == s.nSections = 0
        sectionStatus  == IF s.autoAdvance /\ ~isFirstSection
                          THEN "accepted" ELSE "draft"
        section        == [ id      |-> nextId,
                            bookId  |-> s.bookId,
                            content |-> Trim(text),
                            status  |-> sectionStatus,
                            order   |-> order ]
    IN  /\ inflight' = inflight \ {r}
        /\ sections' = Append(sections, section)
        /\ dbSections' = { x \in dbSections : x.id # section.id } \cup {section}
        /\ nextId' = nextId + 1
        /\ everGenerated' = everGenerated \cup {s.bookId}
        /\ timers' = IF s.autoAdvance /\ ~s.shouldStop
                     THEN Append(timers,
                                 [ kind         |-> "gen",
                                   snap         |-> s,
                                   hasStopToken |-> Includes(Trim(text), s.stopToken) ])
                     ELSE timers
        /\ isBusy' = FALSE
        /\ shouldStop' = FALSE
        /\ UNCHANGED << bookId, currentApiKey, autoAdvance, maxSections, stopToken,
                        nextBook, dispatched, edits, configs, stopPending,
                        undoneOrdinals >>

\* The oracle call of request r returns text: the rest of generateNext's try
\* block and its finally block, run in the closure of r.
OracleReturns(r, text) ==
    LET s              == r.snap
        order          == s.nSections + 1
        isFirstSection == s.nSections = 0
        sectionStatus  == IF s.autoAdvance /\ ~isFirstSection
                          THEN "accepted" ELSE "draft"
        section        == [ id      |-> nextId,
                            bookId  |-> s.bookId,
                            content |-> Trim(text),
                            status  |-> sectionStatus,
                            order   |-> order ]
    IN  /\ inflight' = inflight \ {r}
        /\ sections' = Append(sections, section)
        /\ dbSections' = { x \in dbSections : x.id # section.id } \cup {section}
        /\ nextId' = nextId + 1
        /\ everGenerated' = everGenerated \cup {s.bookId}
        /\ timers' = IF s.autoAdvance /\ ~isFirstSection /\ ~s.shouldStop
                     THEN Append(timers,
                                 [ kind         |-> "gen",
                                   snap         |-> s,
                                   hasStopToken |-> Includes(Trim(text), s.stopToken) ])
                     ELSE timers
        /\ isBusy' = FALSE
        /\ shouldStop' = FALSE
        /\ UNCHANGED << bookId, currentApiKey, autoAdvance, maxSections, stopToken,
                        nextBook, dispatched, edits, configs, stopPending,
                        undoneOrdinals >>

\* The catch block alone: generateNext without its finally block.
OracleFails_NoFinally(r) ==
    /\ inflight' = inflight \ {r}
    /\ UNCHANGED << bookId, currentApiKey, autoAdvance, maxSections, stopToken,
                    isBusy, shouldStop, sections, dbSections, timers, nextBook,
                    nextId, dispatched, edits, configs, everGenerated, undoneOrdinals, stopPending >>

\* The oracle call of request r throws: the catch and finally blocks.
OracleFails(r) ==
    /\ inflight' = inflight \ {r}
    /\ isBusy' = FALSE
    /\ shouldStop' = FALSE
    /\ UNCHANGED << bookId, currentApiKey, autoAdvance, maxSections, stopToken,
                    sections, dbSections, timers, nextBook, nextId, dispatched, edits, configs,
                    everGenerated, undoneOrdinals, stopPending >>

\* ------------------------------------------------------------- timers
Delay(kind) == IF kind = "gen" THEN GEN_DELAY ELSE ACCEPT_DELAY

\* Timer i may be the next to fire: no timer scheduled before it has a delay
\* that is not longer than its own.
MayFire(i) == \A j \in 1..(i - 1) : Delay(timers[j].kind) > Delay(timers[i].kind)

RemoveAt(seq, i) == SubSeq(seq, 1, i - 1) \o SubSeq(seq, i + 1, Len(seq))

\* The continuation of generateNext without the comparison of the accepted
\* count with maxSections.
GenTimerFires_NoMax(i) ==
    LET t == timers[i]
        s == t.snap
    IN  /\ t.kind = "gen"
        /\ MayFire(i)
        /\ timers' = RemoveAt(timers, i)
        /\ IF s.shouldStop
           THEN UNCHANGED << autoAdvance, isBusy, shouldStop, inflight, dispatched >>
           ELSE IF ~t.hasStopToken
           THEN /\ GenerateNext(s, FALSE, <<>>, "genTimer")
                /\ UNCHANGED autoAdvance
           ELSE /\ autoAdvance' = FALSE
                /\ UNCHANGED << isBusy, shouldStop, inflight, dispatched >>
        /\ UNCHANGED << bookId, currentApiKey, maxSections, stopToken, sections,
                        dbSections, nextBook, nextId, edits, configs,
                        everGenerated, undoneOrdinals, stopPending >>

\* The setTimeout callback of generateNext (500 ms), run in the closure of the
\* cycle that scheduled it.
GenTimerFires(i) ==
    LET t == timers[i]
        s == t.snap
        acceptedCount == Cardinality({ x \in DbOf(s.bookId) : x.status = "accepted" })
    IN  /\ t.kind = "gen"
        /\ MayFire(i)
        /\ timers' = RemoveAt(timers, i)
        /\ IF s.shouldStop
           THEN UNCHANGED << autoAdvance, isBusy, shouldStop, inflight, dispatched >>
           ELSE IF ~t.hasStopToken /\ acceptedCount < s.maxSections
           THEN /\ GenerateNext(s, FALSE, <<>>, "genTimer")
                /\ UNCHANGED autoAdvance
           ELSE /\ autoAdvance' = FALSE
                /\ UNCHANGED << isBusy, shouldStop, inflight, dispatched >>
        /\ UNCHANGED << bookId, currentApiKey, maxSections, stopToken, sections,
                        dbSections, nextBook, nextId, edits, configs,
                    everGenerated, undoneOrdinals, stopPending >>

\* The setTimeout callback of accept (200 ms), run in the closure of the accept
\* call that scheduled it.
AcceptTimerFires(i) ==
    LET t == timers[i]
        s == t.snap
    IN  /\ t.kind = "accept"
        /\ MayFire(i)
        /\ timers' = RemoveAt(timers, i)
        /\ IF s.shouldStop
           THEN UNCHANGED << autoAdvance, isBusy, shouldStop, inflight, dispatched >>
           ELSE \E currentSections \in DbSorted(s.bookId) :
                  LET acceptedSections == Accepted(currentSections)
                      acceptedCount    == Len(acceptedSections)
                      hasLast          == currentSections # <<>>
                      lastSection      == currentSections[Len(currentSections)]
                  IN  IF /\ hasLast
                         /\ ~Includes(lastSection.content, s.stopToken)
                         /\ acceptedCount < s.maxSections
                      THEN /\ GenerateNext(s, TRUE, acceptedSections, "acceptTimer")
                           /\ UNCHANGED autoAdvance
                      ELSE /\ autoAdvance' = FALSE
                           /\ UNCHANGED << isBusy, shouldStop, inflight, dispatched >>
        /\ UNCHANGED << bookId, currentApiKey, maxSections, stopToken, sections,
                        dbSections, nextBook, nextId, edits, configs,
                    everGenerated, undoneOrdinals, stopPending >>

\* ------------------------------------------------- store operations
\* onUpload(f) with a file: a fresh document becomes the selected one.  The
\* section list of the component is not touched.
onUpload ==
    /\ nextBook <= MaxBooks
    /\ bookId' = nextBook
    /\ nextBook' = nextBook + 1
    /\ UNCHANGED << currentApiKey, autoAdvance, maxSections, stopToken, isBusy,
                    shouldStop, sections, dbSections, inflight, timers, nextId,
                    dispatched, edits, configs,
                    everGenerated, undoneOrdinals, stopPending >>

\* clearRun abandoning the requests in flight as well.
clearRun_Cancels ==
    /\ edits < MaxEdits
    /\ edits' = edits + 1
    /\ IF bookId = NoBook
       THEN UNCHANGED << sections, dbSections >>
       ELSE /\ sections' = <<>>
            /\ dbSections' = dbSections \ DbOf(bookId)
    /\ inflight' = {}
    /\ UNCHANGED << bookId, currentApiKey, autoAdvance, maxSections, stopToken,
                    isBusy, shouldStop, timers, nextBook, nextId,
                    dispatched, configs,
                    everGenerated, undoneOrdinals, stopPending >>

\* clearRun: empties the in-memory list and deletes the records of the
\* selected document.
clearRun ==
    /\ edits < MaxEdits
    /\ edits' = edits + 1
    /\ IF bookId = NoBook
       THEN UNCHANGED << sections, dbSections >>
       ELSE /\ sections' = <<>>
            /\ dbSections' = dbSections \ DbOf(bookId)
    /\ UNCHANGED << bookId, currentApiKey, autoAdvance, maxSections, stopToken,
                    isBusy, shouldStop, inflight, timers, nextBook, nextId,
                    dispatched, configs,
                    everGenerated, undoneOrdinals, stopPending >>

\* Index of the last element of ss with status accepted, 0 if there is none:
\* prev.length - 1 - [...prev].reverse().findIndex(...), one-based.
LastAcceptedIndex(ss) ==
    LET I == { i \in 1..Len(ss) : ss[i].status = "accepted" }
    IN  IF I = {} THEN 0 ELSE CHOOSE i \in I : \A j \in I : j <= i

\* undoLast: removes the last accepted element of the in-memory list and
\* deletes its record.
undoLast ==
    LET idx == LastAcceptedIndex(sections)
    IN  /\ edits < MaxEdits
        /\ edits' = edits + 1
        /\ IF bookId = NoBook \/ idx = 0
           THEN UNCHANGED << sections, dbSections, undoneOrdinals >>
           ELSE /\ sections' = RemoveAt(sections, idx)
                /\ dbSections' = { x \in dbSections : x.id # sections[idx].id }
                /\ undoneOrdinals' = undoneOrdinals \cup
                       { << sections[idx].bookId, sections[idx].order >> }
        /\ UNCHANGED << bookId, currentApiKey, autoAdvance, maxSections, stopToken,
                        isBusy, shouldStop, inflight, timers, nextBook, nextId,
                        dispatched, configs, everGenerated, stopPending >>

\* updateSectionLocal(upd), as a pair of new values for `sections` and the
\* table: the element with the id gets the fields of upd; db.sections.update
\* changes the record with that key if there is one.
UpdStatus(x, id, status) == IF x.id = id THEN [x EXCEPT !.status = status] ELSE x
UpdContent(x, id, content) == IF x.id = id THEN [x EXCEPT !.content = content] ELSE x

\* accept(id): the function, whatever the status of the section.
acceptCall(i) ==
    LET id == sections[i].id
    IN  /\ sections' = [k \in 1..Len(sections) |-> UpdStatus(sections[k], id, "accepted")]
        /\ dbSections' = { UpdStatus(x, id, "accepted") : x \in dbSections }
        /\ timers' = IF autoAdvance /\ ~isBusy /\ ~shouldStop
                     THEN Append(timers, [ kind         |-> "accept",
                                           snap         |-> Snapshot,
                                           hasStopToken |-> FALSE ])
                     ELSE timers
        /\ UNCHANGED << bookId, currentApiKey, autoAdvance, maxSections, stopToken,
                        isBusy, shouldStop, inflight, nextBook, nextId, dispatched, edits, configs,
                    everGenerated, undoneOrdinals, stopPending >>

\* The Accept button rendered for every section, whatever its status.
accept_AnyStatus(i) ==
    acceptCall(i)

\* The Accept button, rendered for draft sections only.
accept(i) ==
    /\ sections[i].status = "draft"
    /\ acceptCall(i)

\* discard(id): the function, whatever the status of the section.
discardCall(i) ==
    LET id == sections[i].id
    IN  /\ edits < MaxEdits
        /\ edits' = edits + 1
        /\ sections' = [k \in 1..Len(sections) |-> UpdStatus(sections[k], id, "discarded")]
        /\ dbSections' = { UpdStatus(x, id, "discarded") : x \in dbSections }
        /\ UNCHANGED << bookId, currentApiKey, autoAdvance, maxSections, stopToken,
                        isBusy, shouldStop, inflight, timers, nextBook, nextId,
                        dispatched, configs,
                    everGenerated, undoneOrdinals, stopPending >>

\* The Discard button, rendered for draft sections only.
discard(i) ==
    /\ sections[i].status = "draft"
    /\ discardCall(i)

\* edit(id, content), from the text area of any section.
edit(i, content) ==
    LET id == sections[i].id
    IN  /\ sections[i].content # content
        /\ edits < MaxEdits
        /\ edits' = edits + 1
        /\ sections' = [k \in 1..Len(sections) |-> UpdContent(sections[k], id, content)]
        /\ dbSections' = { UpdContent(x, id, content) : x \in dbSections }
        /\ UNCHANGED << bookId, currentApiKey, autoAdvance, maxSections, stopToken,
                        isBusy, shouldStop, inflight, timers, nextBook, nextId,
                        dispatched, configs,
                    everGenerated, undoneOrdinals, stopPending >>

\* ------------------------------------------------------ configuration
\* The maximum-sections input.
setMaxSections(m) ==
    /\ m # maxSections
    /\ configs < MaxConfigs
    /\ configs' = configs + 1
    /\ maxSections' = m
    /\ UNCHANGED << bookId, currentApiKey, autoAdvance, stopToken, isBusy,
                    shouldStop, sections, dbSections, inflight, timers, nextBook,
                    nextId, dispatched, edits,
                    everGenerated, undoneOrdinals, stopPending >>

\* The API-key input of the selected provider: a key is typed where there was
\* none (apiKeys starts empty when localStorage holds no key).
setCurrentApiKey(k) ==
    /\ ~currentApiKey
    /\ k
    /\ currentApiKey' = k
    /\ UNCHANGED << bookId, autoAdvance, maxSections, stopToken, isBusy,
                    shouldStop, sections, dbSections, inflight, timers, nextBook,
                    nextId, dispatched, edits, configs,
                    everGenerated, undoneOrdinals, stopPending >>

\* ---------------------------------------------------------------- spec
Next ==
    \/ StartOrNext
    \/ AutoAdvanceClick
    \/ StopProcess
    \/ \E r \in inflight : \E text \in Texts : OracleReturns(r, text)
    \/ \E r \in inflight : OracleFails(r)
    \/ \E i \in 1..Len(timers) : GenTimerFires(i)
    \/ \E i \in 1..Len(timers) : AcceptTimerFires(i)
    \/ onUpload
    \/ clearRun
    \/ undoLast
    \/ \E i \in 1..Len(sections) : accept(i)
    \/ \E i \in 1..Len(sections) : discard(i)
    \/ \E i \in 1..Len(sections) : \E c \in EditTexts : edit(i, c)
    \/ \E m \in MaxChoices : setMaxSections(m)
    \/ \E k \in BOOLEAN : setCurrentApiKey(k)

Spec == Init /\ [][Next]_vars

\* -------------------------------------------- the section operations alone
\* accept(id) and discard(id) as functions, applied to any section of a list
\* the component can hold: sections of one document in append order, each
\* with any status and content.
Statuses == { "draft", "accepted", "discarded" }

StoredLists ==
    UNION { [ 1..n -> [ status : Statuses, content : EditTexts ] ] : n \in 0..MaxStored }

StoreInit ==
    /\ bookId = 1
    /\ currentApiKey = TRUE
    /\ autoAdvance = FALSE
    /\ maxSections = DEFAULT_MAX_SECTIONS
    /\ stopToken = DEFAULT_STOP_TOKEN
    /\ isBusy = FALSE
    /\ shouldStop = FALSE
    /\ \E l \in StoredLists :
          sections = [ k \in 1..Len(l) |-> [ id      |-> k,
                                             bookId  |-> 1,
                                             content |-> l[k].content,
                                             status  |-> l[k].status,
                                             order   |-> k ] ]
    /\ dbSections = { sections[k] : k \in 1..Len(sections) }
    /\ inflight = {}
    /\ timers = <<>>
    /\ nextBook = 2
    /\ nextId = Len(sections) + 1
    /\ dispatched = Len(sections)
    /\ edits = 0
    /\ configs = 0
    /\ everGenerated = IF sections = <<>> THEN {} ELSE {1}
    /\ stopPending = FALSE
    /\ undoneOrdinals = {}

StoreNext ==
    \/ \E i \in 1..Len(sections) : acceptCall(i)
    \/ \E i \in 1..Len(sections) : discardCall(i)

StoreSpec == StoreInit /\ [][StoreNext]_vars

\* ------------------------------------ an auto-advance run left to itself
\* The state right after the human action that starts a run, with auto-advance
\* mode on, and from there only the oracle's answers and the timers: either
\* the Auto advance button has just dispatched a request (in the closure of
\* the render before the click, whose mode was on or off), or the Accept
\* button of a draft has just scheduled its continuation.
AsSections(l) ==
    [ k \in 1..Len(l) |-> [ id      |-> k,
                            bookId  |-> 1,
                            content |-> l[k].content,
                            status  |-> l[k].status,
                            order   |-> k ] ]

RunLists == { l \in StoredLists : Len(l) <= MaxRunLen }

\* The closure of a render with list ss, mode aa and maximum m.
RunSnapshot(ss, aa, m) ==
    [ bookId        |-> 1,
      currentApiKey |-> TRUE,
      autoAdvance   |-> aa,
      maxSections   |-> m,
      stopToken     |-> DEFAULT_STOP_TOKEN,
      shouldStop    |-> FALSE,
      nSections     |-> Len(ss),
      accepted      |-> Contents(Accepted(ss)) ]

RunInit ==
    /\ bookId = 1
    /\ currentApiKey = TRUE
    /\ autoAdvance = TRUE
    /\ maxSections \in MaxChoices
    /\ stopToken = DEFAULT_STOP_TOKEN
    /\ shouldStop = FALSE
    /\ \E l \in RunLists :
          LET ss == AsSections(l)
          IN  \/ \E aa \in BOOLEAN :
                    /\ sections = ss
                    /\ isBusy = TRUE
                    /\ inflight = { [ rid     |-> 1,
                                      caller  |-> "autoAdvance",
                                      snap    |-> RunSnapshot(ss, aa, maxSections),
                                      history |-> JoinTexts(Contents(Accepted(ss)), SEP) ] }
                    /\ timers = <<>>
                    /\ dispatched = 1
              \/ \E i \in 1..Len(ss) :
                    /\ ss[i].status = "draft"
                    /\ sections = [ k \in 1..Len(ss) |-> UpdStatus(ss[k], i, "accepted") ]
                    /\ isBusy = FALSE
                    /\ inflight = {}
                    /\ timers = << [ kind         |-> "accept",
                                     snap         |-> RunSnapshot(ss, TRUE, maxSections),
                                     hasStopToken |-> FALSE ] >>
                    /\ dispatched = 0
    /\ dbSections = { sections[k] : k \in 1..Len(sections) }
    /\ nextBook = 2
    /\ nextId = Len(sections) + 1
    /\ edits = 0
    /\ configs = 0
    /\ everGenerated = IF sections = <<>> THEN {} ELSE {1}
    /\ stopPending = FALSE
    /\ undoneOrdinals = {}

RunNext ==
    \/ \E r \in inflight : \E text \in Texts : OracleReturns(r, text)
    \/ \E r \in inflight : OracleFails(r)
    \/ \E i \in 1..Len(timers) : GenTimerFires(i)
    \/ \E i \in 1..Len(timers) : AcceptTimerFires(i)

\* Every oracle call is answered and every timer fires.
RunSpec == RunInit /\ [][RunNext]_vars /\ WF_vars(RunNext)

\* ================================================================ claims
\* A step in which the pending timer i fired.
TimerFired(i) == i \in 1..Len(timers) /\ timers' = RemoveAt(timers, i)

\* A step in which a request was dispatched to the oracle.
Dispatch == dispatched' # dispatched

\* A step in which a section was appended to the in-memory list, and that section.
Appended == Len(sections') = Len(sections) + 1
NewSection == sections'[Len(sections')]

\* Number of accepted records of document b in the store.
AcceptedCount(b) == Cardinality({ x \in DbOf(b) : x.status = "accepted" })

\* The records of document b that can count as its latest section: those of
\* the highest ordinal and the one generated last (highest identifier).
LatestOf(b) ==
    { x \in DbOf(b) : \/ \A y \in DbOf(b) : y.order <= x.order
                      \/ \A y \in DbOf(b) : y.id <= x.id }

\* The record of document b generated last.
MostRecentOf(b) == { x \in DbOf(b) : \A y \in DbOf(b) : y.id <= x.id }

\* C1: in every reachable state at most one completion request is in flight
\* for a document.
C1_SingleFlight ==
    \A b \in 1..MaxBooks :
        Cardinality({ r \in inflight : r.snap.bookId = b }) <= 1

\* C2: a Start/Next (or Auto advance) click while the busy flag is set is a
\* no-op: no step taken from a busy state has the effect of the click handler,
\* so such a click dispatches no request and changes neither store nor flags.
C2_BusyClickIsNoOp ==
    [][isBusy => ~(StartOrNextHandler \/ AutoAdvanceHandler)]_vars

\* C2 witness: the busy flag is set by a request that a Start/Next click
\* dispatched, and a Start/Next click in this state would find a document, a
\* credential and no pending cancellation.
C2_Witness ==
    /\ isBusy
    /\ \E r \in inflight : r.caller = "startOrNext"
    /\ bookId # NoBook /\ currentApiKey /\ ~shouldStop
    /\ dispatched < MaxRequests

\* C3: after Stop Process was clicked while a request was in flight, no
\* request is dispatched until a new Start/Next or Auto advance click (the
\* steps that keep stopPending set are the steps of everything else).
C3_NoDispatchAfterStop ==
    [][(stopPending /\ stopPending') => ~Dispatch]_vars

\* C4: a continuation check that fires while the cancellation flag is set (the
\* flag was clear when the check was scheduled, so Stop Process was clicked
\* during the settling delay) dispatches no request and leaves the mode alone.
C4_StopDuringDelay ==
    [][\A i \in 1..Len(timers) :
          (shouldStop /\ TimerFired(i))
              => (~Dispatch /\ autoAdvance' = autoAdvance)]_vars

\* C5: a generation cycle that begins while the cancellation flag is set, with
\* document and credential present, clears the flag, dispatches no request,
\* does not set the busy flag and appends no section.  A cycle begins with a
\* click of Start/Next or Auto advance, and in every step that dispatches.
C5_PreFlightCancel ==
    [][(/\ shouldStop
        /\ bookId # NoBook /\ currentApiKey
        /\ (StartOrNext \/ AutoAdvanceClick \/ Dispatch))
          => (/\ ~shouldStop'
              /\ ~Dispatch
              /\ isBusy' = isBusy
              /\ sections' = sections)]_vars

\* C6: the first section ever appended for a document has status draft.
C6_FirstSectionDraft ==
    [][\A b \in 1..MaxBooks :
          (b \notin everGenerated /\ b \in everGenerated')
              => (Appended /\ NewSection.bookId = b /\ NewSection.status = "draft")]_vars

\* C7: a section appended while auto-advance mode is active, for a document
\* that already has a section (in the store and in the list), is accepted.
C7_AutoAccept ==
    [][(/\ Appended
        /\ autoAdvance
        /\ DbOf(NewSection.bookId) # {}
        /\ \E k \in 1..Len(sections) : sections[k].bookId = NewSection.bookId)
          => NewSection.status = "accepted"]_vars

\* C8: a continuation check that fires when the accepted count of its
\* document (the selected one) has reached the configured maximum dispatches
\* no request and turns auto-advance mode off.
C8_HaltAtMaximum ==
    [][\A i \in 1..Len(timers) :
          (/\ TimerFired(i)
           /\ timers[i].snap.bookId = bookId
           /\ AcceptedCount(bookId) >= maxSections)
              => (~Dispatch /\ ~autoAdvance')]_vars

\* C9: a continuation check that fires when the section generated last for its
\* document contains the stop token dispatches no request and turns the mode
\* off; a check dispatches only if that section lacks the stop token (the
\* maximum is the subject of C8).
C9_HaltAtStopToken ==
    [][\A i \in 1..Len(timers) :
          TimerFired(i) =>
            LET b == timers[i].snap.bookId
            IN  /\ (\E x \in MostRecentOf(b) : Includes(x.content, stopToken))
                       => (~Dispatch /\ ~autoAdvance')
                /\ Dispatch
                       => \A x \in MostRecentOf(b) : ~Includes(x.content, stopToken)]_vars

\* C10: the decision of a continuation check follows the store as it is when
\* the delay expires: if the latest section of its document then contains the
\* stop token (the token the check itself uses), the check does not dispatch.
C10_DecisionReadsStore ==
    [][\A i \in 1..Len(timers) :
          (/\ TimerFired(i)
           /\ LatestOf(timers[i].snap.bookId) # {}
           /\ \A x \in LatestOf(timers[i].snap.bookId) :
                  Includes(x.content, timers[i].snap.stopToken))
              => ~Dispatch]_vars

\* The number of requests whose oracle call failed so far: every dispatched
\* request is in flight, has appended a section (and consumed an identifier),
\* or has failed.
FailedRequests == dispatched - Cardinality(inflight) - (nextId - 1)

\* C11: when the oracle call of a request fails, the step clears the busy flag
\* and the cancellation flag, appends no section (list and store unchanged),
\* leaves auto-advance mode as it was, schedules no continuation check and
\* dispatches no request.
C11_OracleFailure ==
    [][\A r \in inflight :
          OracleFails(r) =>
              /\ ~isBusy' /\ ~shouldStop'
              /\ sections' = sections /\ dbSections' = dbSections
              /\ autoAdvance' = autoAdvance
              /\ timers' = timers
              /\ ~Dispatch]_vars

\* C11 witness: a request has failed while auto-advance mode was active; the
\* mode is still active, both flags are clear, nothing is in flight and no
\* continuation check is pending.
C11_Witness ==
    /\ FailedRequests > 0
    /\ autoAdvance
    /\ ~isBusy /\ ~shouldStop
    /\ inflight = {} /\ timers = <<>>

\* C12: the busy flag never stays set after the cycle that set it: every step
\* in which a request leaves flight (success or oracle error) ends with the
\* flag clear, a click whose cycle aborts before dispatch (no document, no
\* credential, pre-flight cancellation) ends with the flag clear, and the flag
\* is set only while a request is in flight.
C12_BusyClearedOnExit ==
    /\ [](isBusy => inflight # {})
    /\ [][/\ (\E r \in inflight : r \notin inflight') => ~isBusy'
          /\ ((StartOrNext \/ AutoAdvanceClick) /\ ~Dispatch) => ~isBusy']_vars

\* C12 witness: an Auto advance click was refused for want of a document (the
\* mode is on and no document was ever selected), and the busy flag is clear.
C12_Witness ==
    /\ autoAdvance
    /\ bookId = NoBook
    /\ ~isBusy

\* C13: a click of Start/Next or Auto advance with no document selected or no
\* credential dispatches no request and changes no state: list, store, busy
\* flag, cancellation flag and auto-advance mode are as before.
C13_PreconditionRefusal ==
    [][((StartOrNext \/ AutoAdvanceClick) /\ (bookId = NoBook \/ ~currentApiKey))
          => /\ ~Dispatch
             /\ sections' = sections /\ dbSections' = dbSections
             /\ isBusy' = isBusy
             /\ shouldStop' = shouldStop
             /\ autoAdvance' = autoAdvance]_vars

\* C14: the ordinal of every appended section is greater than the ordinal of
\* every section its document has in the store, and the first section ever
\* appended for a document gets ordinal 1.
C14_OrdinalsIncrease ==
    [][Appended =>
          LET b == NewSection.bookId
          IN  /\ b \notin everGenerated => NewSection.order = 1
              /\ \A x \in DbOf(b) : x.order < NewSection.order]_vars

\* C15: no appended section receives an ordinal that a section of the same
\* document holds in the store or that a section removed by undoLast held.
C15_OrdinalsNeverReused ==
    [][Appended =>
          LET b == NewSection.bookId
          IN  /\ << b, NewSection.order >> \notin undoneOrdinals
              /\ \A x \in DbOf(b) : x.order # NewSection.order]_vars

\* C16: the history of every request is, at the step that dispatches it, the
\* blank-line join in ordinal order of the contents of exactly the accepted
\* sections the store holds for the request's document (the empty text if
\* there is none).
C16_HistoryIsAccepted ==
    [][\A r \in inflight' \ inflight :
          \E cs \in DbSorted(r.snap.bookId) :
              r.history = Stitched(FilterAccepted(cs))]_vars

\* C17: accepting a draft while auto-advance mode is active, the busy flag is
\* clear and no cancellation is requested schedules a continuation check; and
\* when such a check fires for the selected document, with no cancellation
\* requested, the section generated last accepted and lacking the stop token,
\* and the accepted count below the maximum, it dispatches a request.  The
\* second part is stated for the quiet case: nothing is in flight, no other
\* check is pending, and the list is as long as when the draft was accepted.
C17_AcceptContinues ==
    [][/\ \A i \in 1..Len(sections) :
             (accept(i) /\ autoAdvance /\ ~isBusy /\ ~shouldStop)
                 => /\ Len(timers') = Len(timers) + 1
                    /\ timers'[Len(timers')].kind = "accept"
       /\ \A i \in 1..Len(timers) :
             (/\ TimerFired(i)
              /\ timers[i].kind = "accept"
              /\ timers[i].snap.bookId = bookId
              /\ timers[i].snap.nSections = Len(sections)
              /\ Len(timers) = 1 /\ inflight = {}
              /\ ~shouldStop
              /\ MostRecentOf(bookId) # {}
              /\ \A x \in MostRecentOf(bookId) :
                     x.status = "accepted" /\ ~Includes(x.content, stopToken)
              /\ AcceptedCount(bookId) < maxSections)
                 => Dispatch]_vars

\* C18: a section's status changes only from draft to accepted or from draft
\* to discarded, in the list and in the store: an accepted or discarded
\* section keeps its status for as long as it exists.
C18_StatusTransitions ==
    [][/\ \A x \in dbSections : \A y \in dbSections' :
             (x.id = y.id /\ x.status # y.status)
                 => (x.status = "draft" /\ y.status \in {"accepted", "discarded"})
       /\ \A i \in 1..Len(sections) : \A j \in 1..Len(sections') :
             (sections[i].id = sections'[j].id
                 /\ sections[i].status # sections'[j].status)
                 => (/\ sections[i].status = "draft"
                     /\ sections'[j].status \in {"accepted", "discarded"})]_vars

\* C18 witness: both transitions have happened: a section of ordinal 1 (always
\* appended as a draft) is accepted, and a section is discarded.
C18_Witness ==
    \E x, y \in dbSections :
        /\ x.status = "accepted" /\ x.order = 1
        /\ y.status = "discarded"

\* C19: accept applied to a discarded section, and discard applied to an
\* accepted section, leave the list and the store as they were.
C19_InvalidTransition ==
    [][\A i \in 1..Len(sections) :
          /\ (acceptCall(i) /\ sections[i].status = "discarded")
                 => (sections' = sections /\ dbSections' = dbSections)
          /\ (discardCall(i) /\ sections[i].status = "accepted")
                 => (sections' = sections /\ dbSections' = dbSections)]_vars

\* The list ss without the section of identifier id.
WithoutId(ss, id) == SelectSeq(ss, LAMBDA s : s.id # id)

\* C20: undoLast removes exactly one section, an accepted section of the
\* selected document with the highest ordinal among its accepted sections, from
\* the store and from the list, and leaves all else as it was; when the
\* selected document has no accepted section, list and store are unchanged.
C20_UndoLastAccepted ==
    [][undoLast =>
          LET A == { x \in DbOf(bookId) : x.status = "accepted" }
          IN  IF A = {}
              THEN sections' = sections /\ dbSections' = dbSections
              ELSE \E x \in A :
                      /\ \A y \in A : y.order <= x.order
                      /\ dbSections' = dbSections \ {x}
                      /\ sections' = WithoutId(sections, x.id)]_vars

\* C21: undoLast and clearRun leave the requests in flight and the busy flag
\* alone, and every request that returns afterwards (as every request that
\* returns) leaves flight, clears the busy flag and adds exactly one section,
\* of its document, to the list and to the store.
C21_InFlightUnaffected ==
    [][/\ (undoLast \/ clearRun) => (inflight' = inflight /\ isBusy' = isBusy)
       /\ \A r \in inflight : \A text \in Texts :
             OracleReturns(r, text) =>
                 /\ inflight' = inflight \ {r}
                 /\ ~isBusy'
                 /\ Appended
                 /\ SubSeq(sections', 1, Len(sections)) = sections
                 /\ NewSection.bookId = r.snap.bookId
                 /\ NewSection \notin dbSections
                 /\ dbSections' = dbSections \cup {NewSection}]_vars

\* C21 witness: the list holds a single section, of ordinal 2, nothing was
\* undone and the store holds no other section of its document: the request
\* for it was dispatched when the list had one section, Clear emptied list and
\* store while it was in flight, and it has returned; the busy flag is clear.
C21_Witness ==
    /\ Len(sections) = 1
    /\ sections[1].order = 2
    /\ DbOf(sections[1].bookId) = {sections[1]}
    /\ undoneOrdinals = {}
    /\ inflight = {} /\ ~isBusy

\* C22: for a document that never had a section, a request dispatched by
\* Start/Next with auto-advance off that returns leaves the list with exactly
\* one section, a draft of ordinal 1; and accepting the only section of the
\* selected document makes it accepted in the store and makes the stitched
\* text that section's content.
C22_EndToEnd ==
    [][/\ \A r \in inflight :
             (/\ r \notin inflight' /\ Appended
              /\ r.caller = "startOrNext" /\ ~r.snap.autoAdvance
              /\ r.snap.bookId \notin everGenerated
              /\ DbOf(r.snap.bookId) = {})
                 => /\ Len(sections') = 1
                    /\ NewSection.status = "draft"
                    /\ NewSection.order = 1
       /\ \A i \in 1..Len(sections) :
             (accept(i) /\ DbOf(bookId) = {sections[i]})
                 => /\ \A x \in { y \in dbSections' : y.bookId = bookId } :
                           x.status = "accepted"
                    /\ Stitched(Accepted(sections')) = sections[i].content]_vars

Idle == inflight = {} /\ timers = <<>>

\* C24 (as stated): a run left to itself ends with nothing in flight, no
\* continuation pending and auto-advance mode off, having dispatched at most
\* maxSections requests.  Left to itself a run changes no more once nothing is
\* in flight or pending, so every such state is one it ends in: the mode is
\* off there.
C24_Terminates ==
    /\ Idle => ~autoAdvance
    /\ dispatched <= maxSections

\* C24 (amended): a run left to itself reaches, and stays in, a state with
\* nothing in flight and no continuation pending, and dispatches at most
\* maxSections requests; a continuation check that dispatches nothing turns
\* auto-advance mode off, and a check dispatches only while the accepted count
\* is below the maximum.
C24_TerminatesAmended ==
    /\ <>[]Idle
    /\ [](dispatched <= maxSections)
    /\ [][\A i \in 1..Len(timers) :
             /\ (TimerFired(i) /\ ~Dispatch) => ~autoAdvance'
             /\ (TimerFired(i) /\ Dispatch)
                    => AcceptedCount(bookId) < maxSections]_vars

\* C24 witness: a run has dispatched a request and a continuation check has
\* ended it: nothing in flight or pending, mode off.
C24_Witness ==
    /\ Idle
    /\ ~autoAdvance
    /\ dispatched > 0

\* Number of accepted records of document b in the store after the step.
AcceptedCountAfter(b) ==
    Cardinality({ x \in dbSections' : x.bookId = b /\ x.status = "accepted" })

\* C25: whenever the controller appends a section with status accepted, the
\* accepted count of that section's document after the append is at most the
\* configured maximum.
C25_AcceptedWithinMaximum ==
    [][(Appended /\ NewSection.status = "accepted")
          => AcceptedCountAfter(NewSection.bookId) <= maxSections]_vars

\* C26: in every reachable state the busy flag is true exactly when a request
\* has been dispatched and has not yet returned.
C26_BusyTracksInFlight == isBusy <=> (inflight # {})

\* C27: the in-memory section list only ever contains sections of the
\* currently selected document.
C27_ListOwnedBySelected ==
    \A k \in 1..Len(sections) : sections[k].bookId = bookId

\* C28: a continuation timer that fires while auto-advance mode is off
\* dispatches no request.
C28_NoDispatchWhileOff ==
    [][\A i \in 1..Len(timers) :
          (TimerFired(i) /\ ~autoAdvance) => ~Dispatch]_vars

\* C29: an explicit startOrNext() made with document and credential present
\* while no request is in flight and no continuation is scheduled finds the
\* cancellation flag clear and dispatches a request.
C29_NoStaleCancellation ==
    [][(StartOrNext /\ Idle /\ bookId # NoBook /\ currentApiKey)
          => (~shouldStop /\ Dispatch)]_vars

====
